---- MODULE Spec2Model ----
(***************************************************************************)
(* photodiag_web: the spectral autocorrelation panel                       *)
(* (src/photodiag_web/app/panel_spect_autocorr.py) and the correlation     *)
(* panel (src/photodiag_web/app/panel_correlation.py).                     *)
(*                                                                         *)
(* Three kinds of execution context are modelled: the cooperative          *)
(* scheduler of the document (widget callbacks, the FIFO of next-tick      *)
(* callbacks, the periodic refresh), the threads the panels start (the     *)
(* calibration workers, the _collect_data threads) and the thread that     *)
(* delivers the subscription callbacks update_x and update_y.              *)
(* Actuator positions, statuses and spinner values are small integers.     *)
(***************************************************************************)
EXTENDS Integers, Sequences, FiniteSets, TLC

\* ---------------------------------------------------------------- bounds
\* largest value of the "To" spinner
MaxTo == 3
\* largest value of the "Step" spinner
MaxStep == 2
\* number of worker thread slots (threads alive at the same time)
MaxWorkers == 2
\* the operator changes the device or toggles the live session only while
\* fewer than MaxTicks next-tick callbacks are pending
MaxTicks == 1

\* callbacks that may be pending when the operator changes the device during
\* the calibration: the lock, the reset and one point of a scan
MaxPending == 3

\* number of _collect_data threads alive at the same time
MaxCollectors == 2
\* pulses of the machine in one behaviour
MaxMessages == 3
\* largest shot count the operator types into the spectral panel
MaxShots == 4
\* samples pushed into buffer_autocorr between two clears or allocations
MaxPush == 5
\* entries of the FWHM history at which the periodic refresh stops fitting
MaxHistory == 2

\* ------------------------------------------------------------- constants
\* the one device scanned with motor_scan; every other device uses pv_scan
MOTOR_DEVICE == "SARFE10-PSSS059"
OTHER_DEVICE == "SARFE10-PSSS055"
\* keys of SPECT_DEV_CONFIG
devices == <<MOTOR_DEVICE, OTHER_DEVICE>>
DeviceSet == {devices[i] : i \in 1..Len(devices)}

\* return value of a move that succeeded
MOVE_OK == 0
\* return value of a move outside the soft limits
OUTSIDE_SOFT_LIMITS == -12
\* statuses a move/write can report: success, soft limits, one other failure
Statuses == {MOVE_OK, OUTSIDE_SOFT_LIMITS, -8}

\* values the operator types into the From, To and Step spinners
Froms == {0, 1}
Tos == 0..MaxTo
Steps == -1..MaxStep
\* values the operator types into the "New position" spinner
MoveTargets == {0, MaxTo}

\* value of the "Number shots" spinner at construction
DefaultShots == 100

\* value of the "Number shots" spinner of the correlation panel at
\* construction
CorrDefaultShots == 100
\* slots of the _collect_data threads
CollectorSlots == 1..MaxCollectors

\* _update_plots fits only a buffer of at least this many samples
MIN_SAMPLES == 4
\* rollover of the FWHM history
ROLLOVER == 3600

\* --------------------------------------------------------- pure functions
\* a range that includes its stop value, as range-with-endpoint would
ArangeLenInclusive(a, b, s) ==
    IF s > 0
    THEN (IF b >= a THEN (b - a) \div s + 1 ELSE 0)
    ELSE (IF a >= b THEN (a - b) \div (-s) + 1 ELSE 0)

\* len(np.arange(a, b, s)) for integers, s # 0
ArangeLen(a, b, s) ==
    IF s > 0
    THEN (IF b > a THEN (b - a + s - 1) \div s ELSE 0)
    ELSE (IF a > b THEN (a - b + (-s) - 1) \div (-s) ELSE 0)

\* np.arange(a, b, s) for integers, s # 0: a, a+s, a+2s, ...
Arange(a, b, s) == [k \in 1..ArangeLen(a, b, s) |-> a + (k - 1) * s]

\* scan function _calibrate chooses for a device
ScanFunc(d) == IF d = MOTOR_DEVICE THEN "motor_scan" ELSE "pv_scan"

\* effect of a move/write on the actuator: it is at the target when the
\* command succeeded and stays where it was otherwise
Actuate(p, target, status) == IF status = MOVE_OK THEN target ELSE p

\* ------------------------------------------------------------------ state
VARIABLES
    device_select,      \* [value, disabled]
    num_shots_spinner,  \* [value, disabled]
    from_spinner,       \* [disabled]; the value is an input of the scan
    to_spinner,         \* [disabled]
    step_spinner,       \* [disabled]
    move_button,        \* [disabled] (pos_spinner shares the flag)
    calibrate_button,   \* [active, disabled, label]
    update_toggle,      \* [active, label]
    elog_buttons,       \* [calib, fit]: disabled flags of the push buttons
    is_running,         \* [calib, live]
    ticks,              \* FIFO of pending next-tick callbacks <<name, arg>>
    periodic,           \* update_plots_periodic_callback registered
    subscribed,         \* devices whose SPECTRUM_X/Y carry update_x/update_y
    buffer_autocorr,    \* [maxlen, items]; maxlen 0 is an unbounded deque
    plots,              \* [autocorr, fwhm, calib]: contents of the sources
    calib_stop_event,   \* the Event shared with the workers
    workers,            \* slot -> worker thread record
    motor_pos,          \* device -> position of its actuator
    refresh,            \* the _update_plots call in progress, and its result
    pushed,             \* samples appended to buffer_autocorr since it was
                        \* allocated or cleared, in push order
    corr_device_select,     \* correlation panel: [disabled]; the device
                            \* names only label the channels and the plots
    corr_device2_select,    \* [disabled]
    corr_num_shots_spinner, \* [value, disabled]
    corr_update_toggle,     \* [active, label]
    corr_push_elog_button,  \* [disabled]
    corr_periodic,          \* update_plots_periodic_callback registered
    corr_ticks,             \* pending next-tick callbacks of the panel
    corr_buffer,            \* [maxlen, items]
    collectors,             \* slot -> _collect_data thread record
    corr_plots,             \* [even, odd]: contents of the six sources
    corr_refresh,           \* the _update_plots call in progress
    pulse_id                \* pulse id of the next message of the streams

vars == <<device_select, num_shots_spinner, from_spinner, to_spinner,
          step_spinner, move_button, calibrate_button, update_toggle,
          elog_buttons, is_running, ticks, periodic, subscribed,
          buffer_autocorr, plots, calib_stop_event, workers, motor_pos,
          refresh, pushed,
          corr_device_select, corr_device2_select, corr_num_shots_spinner,
          corr_update_toggle, corr_push_elog_button, corr_periodic,
          corr_ticks, corr_buffer, collectors, corr_plots,
          corr_refresh, pulse_id>>

\* the variables of the refresh of the spectral panel
fit_vars == <<refresh, pushed>>

\* the variables of the correlation panel
corr_vars ==
    <<corr_device_select, corr_device2_select, corr_num_shots_spinner,
      corr_update_toggle, corr_push_elog_button, corr_periodic, corr_ticks,
      corr_buffer, collectors, corr_plots, corr_refresh, pulse_id>>

\* The scheduler of the document runs one callback at a time: a widget
\* callback or a next-tick callback starts only when no _update_plots
\* coroutine is between two of its statements.
Cooperative == refresh.pc = "idle" /\ corr_refresh.pc = "idle"

Slots == 1..MaxWorkers

\* A slot holding no thread. pc, device_name, scan_func, scan_range, k, init
\* and scan_mean are the thread's locals; the other fields record what the
\* thread did, for the properties below: the positions it moved to, the points
\* it handed to the scheduler, the last command of the scan function and its
\* status, whether the restoring move ran, the actuator position when the
\* thread returned, whether a sweep move/write reported a non-success status,
\* the position index at which the stop event was set, the messages logged.
NoWorker ==
    [pc |-> "none", device_name |-> "", scan_func |-> "", scan_range |-> <<>>,
     k |-> 0, init |-> 0, scan_mean |-> <<>>, moved |-> <<>>, handed |-> <<>>,
     exit_cmd |-> <<>>, restored |-> FALSE, end_pos |-> 0,
     bad_status |-> FALSE, stop_at |-> 0, logged |-> <<>>]

\* a worker whose thread has exited, normally or not
Exited(w) == w.pc \in {"done", "crashed"}
\* a worker is alive from Thread.start until its thread exits
Alive(w) == w.pc \notin {"none", "done", "crashed"}

\* No _update_plots call in progress. pc is "checked" between the length
\* check and the snapshot and "fitted" between the fit and the update of the
\* sources; n and fit are locals of the call: the number of samples in its
\* snapshot, the fitted widths and what it resolved them to. raised records
\* that a call has ended in an exception of the fit since a fit was last
\* streamed (the scheduler logs the exception and keeps the callback).
NoRefresh == [pc |-> "idle", n |-> 0, fit |-> <<>>, raised |-> FALSE]

\* A slot holding no _collect_data thread. current records that no live
\* session has been started since the one that started the thread, since the
\* pulse id of the first message after that start.
\* A thread that leaves its loop frees its slot.
NoCollector == [pc |-> "none", current |-> FALSE, since |-> 0]

\* a _collect_data thread inside its loop
Collecting(c) == c.pc \in {"check", "receive"}

\* the six scatter sources with no points
NoPoints ==
    [xcorr_even |-> <<>>, ycorr_even |-> <<>>, icorr_even |-> <<>>,
     xcorr_odd |-> <<>>, ycorr_odd |-> <<>>, icorr_odd |-> <<>>]

\* The correlation panel after create(): setting the two selectors has run
\* both device callbacks, each of which posted _update_plots.
CorrInit ==
    /\ corr_device_select = [disabled |-> FALSE]
    /\ corr_device2_select = [disabled |-> FALSE]
    /\ corr_num_shots_spinner = [value |-> CorrDefaultShots, disabled |-> FALSE]
    /\ corr_update_toggle = [active |-> FALSE, label |-> "Update"]
    /\ corr_push_elog_button = [disabled |-> FALSE]
    /\ corr_periodic = FALSE
    /\ corr_ticks = <<"update_plots", "update_plots">>
    /\ corr_buffer = [maxlen |-> 0, items |-> <<>>]
    /\ collectors = [c \in CollectorSlots |-> NoCollector]
    /\ corr_plots = NoPoints
    /\ corr_refresh = [pc |-> "idle"]
    /\ pulse_id = 0

\* ------------------------------------------------------------------- Init
\* State after create(): device_select.value = devices[0] has run
\* device_select_callback once.
Init ==
    /\ device_select = [value |-> devices[1], disabled |-> FALSE]
    /\ num_shots_spinner = [value |-> DefaultShots, disabled |-> FALSE]
    /\ from_spinner = [disabled |-> FALSE]
    /\ to_spinner = [disabled |-> FALSE]
    /\ step_spinner = [disabled |-> FALSE]
    /\ move_button = [disabled |-> FALSE]
    /\ calibrate_button =
         [active |-> FALSE, disabled |-> FALSE, label |-> "Calibrate"]
    /\ update_toggle = [active |-> FALSE, label |-> "Update"]
    /\ elog_buttons = [calib |-> FALSE, fit |-> FALSE]
    /\ is_running = [calib |-> FALSE, live |-> FALSE]
    /\ ticks = << <<"update_plots", 0>>, <<"reset_calib_plot", 0>> >>
    /\ periodic = FALSE
    /\ subscribed = {}
    /\ buffer_autocorr = [maxlen |-> 0, items |-> <<>>]
    /\ plots = [autocorr |-> "empty", fwhm |-> 0, calib |-> <<>>]
    /\ calib_stop_event = FALSE
    /\ workers = [w \in Slots |-> NoWorker]
    /\ motor_pos = [d \in DeviceSet |-> 0]
    /\ refresh = NoRefresh
    /\ pushed = <<>>
    /\ CorrInit

\* The panel with device d selected and the scheduler idle: Init for
\* devices[0] once its two callbacks have run, or the state reached from there
\* by device_select_callback(d) and its two callbacks.
Selected(d) ==
    /\ device_select = [value |-> d, disabled |-> FALSE]
    /\ num_shots_spinner = [value |-> DefaultShots, disabled |-> FALSE]
    /\ from_spinner = [disabled |-> FALSE]
    /\ to_spinner = [disabled |-> FALSE]
    /\ step_spinner = [disabled |-> FALSE]
    /\ move_button = [disabled |-> FALSE]
    /\ calibrate_button =
         [active |-> FALSE, disabled |-> FALSE, label |-> "Calibrate"]
    /\ update_toggle = [active |-> FALSE, label |-> "Update"]
    /\ elog_buttons = [calib |-> FALSE, fit |-> FALSE]
    /\ is_running = [calib |-> FALSE, live |-> FALSE]
    /\ ticks = <<>>
    /\ periodic = FALSE
    /\ subscribed = {}
    /\ buffer_autocorr = [maxlen |-> 0, items |-> <<>>]
    /\ plots = [autocorr |-> "empty", fwhm |-> 0, calib |-> <<>>]
    /\ calib_stop_event = FALSE
    /\ workers = [w \in Slots |-> NoWorker]
    /\ motor_pos = [x \in DeviceSet |-> 0]
    /\ refresh = NoRefresh
    /\ pushed = <<>>
    /\ CorrInit

\* the operator has chosen the device to calibrate
InitScan == \E d \in DeviceSet : Selected(d)

\* ------------------------------------------------- operator: plain widgets
\* move_button_callback: write pos_spinner.value (p) to the motor of the
\* selected device, without waiting
move_button_callback(p) ==
    /\ Cooperative
    /\ ~move_button.disabled
    /\ motor_pos' = [motor_pos EXCEPT ![device_select.value] = p]
    /\ UNCHANGED <<fit_vars, corr_vars,
                   device_select, num_shots_spinner, from_spinner, to_spinner,
                   step_spinner, move_button, calibrate_button, update_toggle,
                   elog_buttons, is_running, ticks, periodic, subscribed,
                   buffer_autocorr, plots, calib_stop_event, workers>>

\* device_select_callback: clear the buffer and post the two resets (the
\* defaults it loads into the spinners are values the operator can type too)
device_select_change(new) ==
    /\ Cooperative
    /\ ~device_select.disabled
    /\ new # device_select.value
    /\ device_select' = [device_select EXCEPT !.value = new]
    /\ buffer_autocorr' = [buffer_autocorr EXCEPT !.items = <<>>]
    /\ ticks' = ticks \o << <<"update_plots", 0>>, <<"reset_calib_plot", 0>> >>
    /\ pushed' = <<>>
    /\ UNCHANGED <<refresh, corr_vars,
                   num_shots_spinner, from_spinner, to_spinner, step_spinner,
                   move_button, calibrate_button,
                   update_toggle, elog_buttons, is_running, periodic,
                   subscribed, plots, calib_stop_event, workers, motor_pos>>

\* the device is changed while fewer than MaxTicks callbacks are pending
device_select_callback(new) ==
    /\ Len(ticks) < MaxTicks
    /\ device_select_change(new)

\* ------------------------------------------------------ calibrate button
\* lowest slot that holds no live thread
FreeSlot(w) ==
    /\ ~Alive(workers[w])
    /\ \A v \in Slots : v < w => Alive(workers[v])

\* index of the position a worker is moving to or acquiring when the stop
\* event is set (0 once it has left the sweep); bookkeeping for the claims
SweepIndex(w) ==
    IF w.pc \in {"start", "origin"} THEN 1
    ELSE IF w.pc \in {"move", "collect", "check"} THEN w.k
    ELSE 0

\* calibrate_button_callback, new = True: post the lock, clear the stop
\* event, start a worker thread
calibrate_start ==
    /\ Cooperative
    /\ ~calibrate_button.disabled
    /\ ~calibrate_button.active
    /\ \E w \in Slots :
         /\ FreeSlot(w)
         /\ workers' = [workers EXCEPT ![w] = [NoWorker EXCEPT !.pc = "start"]]
    /\ ticks' = Append(ticks, <<"calib_lock", 0>>)
    /\ calib_stop_event' = FALSE
    /\ calibrate_button' =
         [calibrate_button EXCEPT !.active = TRUE, !.label = "Stop"]
    /\ UNCHANGED <<fit_vars, corr_vars,
                   device_select, num_shots_spinner, from_spinner, to_spinner,
                   step_spinner, move_button, update_toggle, elog_buttons,
                   is_running, periodic, subscribed, buffer_autocorr, plots,
                   motor_pos>>

\* a stop branch that sets the stop event and leaves the button enabled
calibrate_stop_enabled ==
    /\ Cooperative
    /\ ~calibrate_button.disabled
    /\ calibrate_button.active
    /\ calib_stop_event' = TRUE
    /\ calibrate_button' =
         [active |-> FALSE, disabled |-> FALSE, label |-> "Stopping"]
    /\ workers' =
         [w \in Slots |->
            IF Alive(workers[w]) /\ workers[w].stop_at = 0
            THEN [workers[w] EXCEPT !.stop_at = SweepIndex(workers[w])]
            ELSE workers[w]]
    /\ UNCHANGED <<fit_vars, corr_vars,
                   device_select, num_shots_spinner, from_spinner, to_spinner,
                   step_spinner, move_button, update_toggle, elog_buttons,
                   is_running, ticks, periodic, subscribed, buffer_autocorr,
                   plots, motor_pos>>

\* calibrate_button_callback, new = False: set the stop event and disable
\* the button
calibrate_stop ==
    /\ Cooperative
    /\ ~calibrate_button.disabled
    /\ calibrate_button.active
    /\ calib_stop_event' = TRUE
    /\ calibrate_button' =
         [active |-> FALSE, disabled |-> TRUE, label |-> "Stopping"]
    /\ workers' =
         [w \in Slots |->
            IF Alive(workers[w]) /\ workers[w].stop_at = 0
            THEN [workers[w] EXCEPT !.stop_at = SweepIndex(workers[w])]
            ELSE workers[w]]
    /\ UNCHANGED <<fit_vars, corr_vars,
                   device_select, num_shots_spinner, from_spinner, to_spinner,
                   step_spinner, move_button, update_toggle, elog_buttons,
                   is_running, ticks, periodic, subscribed, buffer_autocorr,
                   plots, motor_pos>>

\* ------------------------------------------------------------ live toggle
\* update_toggle_callback, new = True
update_toggle_start ==
    /\ Cooperative
    /\ ~update_toggle.active
    /\ Len(ticks) < MaxTicks
    /\ buffer_autocorr' = [maxlen |-> num_shots_spinner.value, items |-> <<>>]
    /\ subscribed' = subscribed \cup {device_select.value}
    /\ periodic' = TRUE
    /\ ticks' = Append(ticks, <<"live_lock", 0>>)
    /\ update_toggle' = [active |-> TRUE, label |-> "Stop"]
    /\ pushed' = <<>>
    /\ UNCHANGED <<refresh, corr_vars,
                   device_select, num_shots_spinner, from_spinner, to_spinner,
                   step_spinner, move_button, calibrate_button, elog_buttons,
                   is_running, plots, calib_stop_event, workers, motor_pos>>

\* update_toggle_callback, new = False
update_toggle_stop ==
    /\ Cooperative
    /\ update_toggle.active
    /\ Len(ticks) < MaxTicks
    /\ subscribed' = subscribed \ {device_select.value}
    /\ periodic' = FALSE
    /\ ticks' = Append(ticks, <<"live_unlock", 0>>)
    /\ update_toggle' = [active |-> FALSE, label |-> "Update"]
    /\ UNCHANGED <<fit_vars, corr_vars,
                   device_select, num_shots_spinner, from_spinner, to_spinner,
                   step_spinner, move_button, calibrate_button, elog_buttons,
                   is_running, buffer_autocorr, plots, calib_stop_event,
                   workers, motor_pos>>

\* --------------------------------------------------- next-tick callbacks
\* the callback at the head of the FIFO is `name`
NextTick(name) == ticks # <<>> /\ Head(ticks)[1] = name

\* any(is_running.values()) after flag `key` has been cleared
\* an unlock that looks at the calibration flag only
OnlyCalibChecked(key) == key # "calib" /\ is_running.calib

\* an unlock that does not look at the other session's flag
IgnoreOtherSession(key) == FALSE

AnyRunningAfterClear(key) ==
    \E other \in {"calib", "live"} : other # key /\ is_running[other]

\* the record of a thread that returned is dropped once an unlock has run:
\* nothing refers to the thread any more
Reaped(w) == IF w.pc = "done" THEN NoWorker ELSE w

\* _calib_lock_gui
calib_lock_gui ==
    /\ Cooperative
    /\ NextTick("calib_lock")
    /\ ticks' = Tail(ticks)
    /\ is_running' = [is_running EXCEPT !.calib = TRUE]
    /\ device_select' = [device_select EXCEPT !.disabled = TRUE]
    /\ num_shots_spinner' = [num_shots_spinner EXCEPT !.disabled = TRUE]
    /\ from_spinner' = [disabled |-> TRUE]
    /\ to_spinner' = [disabled |-> TRUE]
    /\ step_spinner' = [disabled |-> TRUE]
    /\ move_button' = [disabled |-> TRUE]
    /\ elog_buttons' = [elog_buttons EXCEPT !.calib = TRUE]
    /\ UNCHANGED <<fit_vars, corr_vars,
                   calibrate_button, update_toggle, periodic, subscribed,
                   buffer_autocorr, plots, calib_stop_event, workers,
                   motor_pos>>

\* _calib_unlock_gui
calib_unlock_gui ==
    /\ Cooperative
    /\ NextTick("calib_unlock")
    /\ ticks' = Tail(ticks)
    /\ is_running' = [is_running EXCEPT !.calib = FALSE]
    /\ IF ~AnyRunningAfterClear("calib")
       THEN /\ device_select' = [device_select EXCEPT !.disabled = FALSE]
            /\ num_shots_spinner' = [num_shots_spinner EXCEPT !.disabled = FALSE]
       ELSE UNCHANGED <<device_select, num_shots_spinner>>
    /\ from_spinner' = [disabled |-> FALSE]
    /\ to_spinner' = [disabled |-> FALSE]
    /\ step_spinner' = [disabled |-> FALSE]
    /\ move_button' = [disabled |-> FALSE]
    /\ calibrate_button' =
         [calibrate_button EXCEPT !.disabled = FALSE, !.label = "Calibrate"]
    /\ elog_buttons' = [elog_buttons EXCEPT !.calib = FALSE]
    /\ workers' = [w \in Slots |-> Reaped(workers[w])]
    /\ UNCHANGED <<fit_vars, corr_vars,
                   update_toggle, periodic, subscribed, buffer_autocorr,
                   plots, calib_stop_event, motor_pos>>

\* _live_lock_gui
live_lock_gui ==
    /\ Cooperative
    /\ NextTick("live_lock")
    /\ ticks' = Tail(ticks)
    /\ is_running' = [is_running EXCEPT !.live = TRUE]
    /\ device_select' = [device_select EXCEPT !.disabled = TRUE]
    /\ num_shots_spinner' = [num_shots_spinner EXCEPT !.disabled = TRUE]
    /\ elog_buttons' = [elog_buttons EXCEPT !.fit = TRUE]
    /\ UNCHANGED <<fit_vars, corr_vars,
                   from_spinner, to_spinner, step_spinner, move_button,
                   calibrate_button, update_toggle, periodic, subscribed,
                   buffer_autocorr, plots, calib_stop_event, workers,
                   motor_pos>>

\* _live_unlock_gui
live_unlock_gui ==
    /\ Cooperative
    /\ NextTick("live_unlock")
    /\ ticks' = Tail(ticks)
    /\ is_running' = [is_running EXCEPT !.live = FALSE]
    /\ IF ~AnyRunningAfterClear("live")
       THEN /\ device_select' = [device_select EXCEPT !.disabled = FALSE]
            /\ num_shots_spinner' = [num_shots_spinner EXCEPT !.disabled = FALSE]
       ELSE UNCHANGED <<device_select, num_shots_spinner>>
    /\ elog_buttons' = [elog_buttons EXCEPT !.fit = FALSE]
    /\ UNCHANGED <<fit_vars, corr_vars,
                   from_spinner, to_spinner, step_spinner, move_button,
                   calibrate_button, update_toggle, periodic, subscribed,
                   buffer_autocorr, plots, calib_stop_event, workers,
                   motor_pos>>

\* _reset_calib_plot
reset_calib_plot ==
    /\ Cooperative
    /\ NextTick("reset_calib_plot")
    /\ ticks' = Tail(ticks)
    /\ plots' = [plots EXCEPT !.calib = <<>>]
    /\ UNCHANGED <<fit_vars, corr_vars,
                   device_select, num_shots_spinner, from_spinner, to_spinner,
                   step_spinner, move_button, calibrate_button, update_toggle,
                   elog_buttons, is_running, periodic, subscribed,
                   buffer_autocorr, calib_stop_event, workers, motor_pos>>

\* _update_calib_plot(x, wf): fit and stream one point; a fit that raises
\* streams nothing
update_calib_plot ==
    /\ Cooperative
    /\ NextTick("update_calib_plot")
    /\ ticks' = Tail(ticks)
    /\ \E fit_ok \in BOOLEAN :
         plots' = IF fit_ok
                  THEN [plots EXCEPT !.calib = Append(@, Head(ticks)[2])]
                  ELSE plots
    /\ UNCHANGED <<fit_vars, corr_vars,
                   device_select, num_shots_spinner, from_spinner, to_spinner,
                   step_spinner, move_button, calibrate_button, update_toggle,
                   elog_buttons, is_running, periodic, subscribed,
                   buffer_autocorr, calib_stop_event, workers, motor_pos>>

\* body of _update_plots: the new contents of the autocorrelation and FWHM
\* sources
UpdatePlots(fit_ok) ==
    IF Len(buffer_autocorr.items) < MIN_SAMPLES
    THEN [plots EXCEPT !.autocorr = "empty", !.fwhm = 0]
    ELSE IF fit_ok
         THEN [plots EXCEPT !.autocorr = "fit",
                            !.fwhm = IF @ < ROLLOVER THEN @ + 1 ELSE @]
         ELSE plots

\* _update_plots run as a next-tick callback (posted by device_select_callback)
update_plots_tick ==
    /\ Cooperative
    /\ NextTick("update_plots")
    /\ ticks' = Tail(ticks)
    /\ \E fit_ok \in BOOLEAN : plots' = UpdatePlots(fit_ok)
    /\ UNCHANGED <<fit_vars, corr_vars,
                   device_select, num_shots_spinner, from_spinner, to_spinner,
                   step_spinner, move_button, calibrate_button, update_toggle,
                   elog_buttons, is_running, periodic, subscribed,
                   buffer_autocorr, calib_stop_event, workers, motor_pos>>

\* _update_plots run by the periodic callback of a live session
update_plots_periodic ==
    /\ Cooperative
    /\ periodic
    /\ \E fit_ok \in BOOLEAN : plots' = UpdatePlots(fit_ok)
    /\ UNCHANGED <<fit_vars, corr_vars,
                   device_select, num_shots_spinner, from_spinner, to_spinner,
                   step_spinner, move_button, calibrate_button, update_toggle,
                   elog_buttons, is_running, ticks, periodic, subscribed,
                   buffer_autocorr, calib_stop_event, workers, motor_pos>>

\* ---------------------------------------------------------- scan worker
\* a motor scan that stops only for the soft-limit status
RaisesOnlyOutsideLimits(scan_func, status) ==
    scan_func = "motor_scan" /\ status = OUTSIDE_SOFT_LIMITS

\* the move to a scan position makes the scan function raise ValueError
MoveRaises(scan_func, status) == scan_func = "motor_scan" /\ status # MOVE_OK

\* the message of the ValueError raised for a move status
ErrorMessage(status) ==
    IF status = OUTSIDE_SOFT_LIMITS
    THEN <<"error", "Motor position outside soft limits", "LLM", "HLM">>
    ELSE <<"error", "Error moving the motor", status>>

\* the message logged when the scan function returns
SuccessMessage == <<"info", "calibrated">>

\* a sweep that never looks at the stop event
StopIgnored(event) == FALSE

\* the loop's stop check: leave the sweep when the event is set
StopCheck(event) == event

\* a scan that goes back to the start of its range instead of to the origin
RestoreToRangeStart(w) ==
    IF Len(w.scan_range) > 0 THEN w.scan_range[1] ELSE w.init

\* where the scan sends the actuator after the sweep
RestoreTarget(w) == w.init

\* program counter after the stop check of position k
AfterCheck(w, event) ==
    IF StopCheck(event) \/ w.k >= Len(w.scan_range) THEN "restore" ELSE "move"

\* np.arange raises for a zero step (line 333 is outside the try block)
ArangeRaises(step) == step = 0

\* _calibrate up to the call of the scan function: read the widgets (from,
\* to, step are the values of the three spinners), build scan_range, post
\* _reset_calib_plot, choose the scan function
calibrate_begin(w, from, to, step) ==
    /\ workers[w].pc = "start"
    /\ IF ArangeRaises(step)
       THEN /\ workers' = [workers EXCEPT ![w].pc = "crashed"]
            /\ UNCHANGED ticks
       ELSE /\ workers' = [workers EXCEPT ![w] =
                 [@ EXCEPT !.pc = "origin",
                           !.device_name = device_select.value,
                           !.scan_func = ScanFunc(device_select.value),
                           !.scan_range = Arange(from, to, step),
                           !.k = 1]]
            /\ ticks' = Append(ticks, <<"reset_calib_plot", 0>>)
    /\ UNCHANGED <<fit_vars, corr_vars,
                   device_select, num_shots_spinner, from_spinner, to_spinner,
                   step_spinner, move_button, calibrate_button, update_toggle,
                   elog_buttons, is_running, periodic, subscribed,
                   buffer_autocorr, plots, calib_stop_event, motor_pos>>

\* motor_scan / pv_scan: read the actuator before the sweep
scan_read_init(w) ==
    /\ workers[w].pc = "origin"
    /\ workers' = [workers EXCEPT ![w] =
         [@ EXCEPT !.init = motor_pos[workers[w].device_name],
                   !.pc = IF workers[w].scan_range = <<>>
                          THEN "restore" ELSE "move"]]
    /\ UNCHANGED <<fit_vars, corr_vars,
                   device_select, num_shots_spinner, from_spinner, to_spinner,
                   step_spinner, move_button, calibrate_button, update_toggle,
                   elog_buttons, is_running, ticks, periodic, subscribed,
                   buffer_autocorr, plots, calib_stop_event, motor_pos>>

\* motor.move(pos, wait=True) / pv.put(pos, wait=True) for position k. A
\* ValueError raised here is caught by _calibrate, which logs it, posts the
\* unlock in its finally clause and returns.
scan_move(w, status) ==
    LET me == workers[w]
        pos == me.scan_range[me.k]
        at == Actuate(motor_pos[me.device_name], pos, status)
    IN  /\ me.pc = "move"
        /\ motor_pos' = [motor_pos EXCEPT ![me.device_name] = at]
        /\ IF MoveRaises(me.scan_func, status)
           THEN /\ workers' = [workers EXCEPT ![w] =
                     [@ EXCEPT !.pc = "done",
                               !.moved = Append(@, pos),
                               !.bad_status = TRUE,
                               !.exit_cmd = <<pos, status>>,
                               !.end_pos = at,
                               !.logged = Append(@, ErrorMessage(status))]]
                /\ ticks' = Append(ticks, <<"calib_unlock", 0>>)
           ELSE /\ workers' = [workers EXCEPT ![w] =
                     [@ EXCEPT !.pc = "collect",
                               !.moved = Append(@, pos),
                               !.bad_status = @ \/ status # MOVE_OK]]
                /\ UNCHANGED ticks
        /\ UNCHANGED <<fit_vars, corr_vars, device_select, num_shots_spinner, from_spinner,
                       to_spinner, step_spinner, move_button, calibrate_button,
                       update_toggle, elog_buttons, is_running, periodic,
                       subscribed, buffer_autocorr, plots, calib_stop_event>>

\* a worker that streams its point to the calibration source itself
scan_collect_streaming(w) ==
    LET me == workers[w]
        pos == me.scan_range[me.k]
    IN  /\ me.pc = "collect"
        /\ workers' = [workers EXCEPT ![w] =
             [@ EXCEPT !.pc = "check",
                       !.scan_mean = Append(@, pos),
                       !.handed = Append(@, pos)]]
        /\ plots' = [plots EXCEPT !.calib = Append(@, pos)]
        /\ UNCHANGED <<fit_vars, corr_vars, device_select, num_shots_spinner, from_spinner,
                       to_spinner, step_spinner, move_button, calibrate_button,
                       update_toggle, elog_buttons, is_running, periodic,
                       subscribed, buffer_autocorr, ticks, calib_stop_event,
                       motor_pos>>

\* epics_collect_data, the averaged autocorrelation, scan_mean.append and the
\* hand-off of the point to _update_calib_plot
scan_collect(w) ==
    LET me == workers[w]
        pos == me.scan_range[me.k]
    IN  /\ me.pc = "collect"
        /\ workers' = [workers EXCEPT ![w] =
             [@ EXCEPT !.pc = "check",
                       !.scan_mean = Append(@, pos),
                       !.handed = Append(@, pos)]]
        /\ ticks' = Append(ticks, <<"update_calib_plot", pos>>)
        /\ UNCHANGED <<fit_vars, corr_vars, device_select, num_shots_spinner, from_spinner,
                       to_spinner, step_spinner, move_button, calibrate_button,
                       update_toggle, elog_buttons, is_running, periodic,
                       subscribed, buffer_autocorr, plots, calib_stop_event,
                       motor_pos>>

\* if stop_event.is_set(): break; otherwise the next position, if any
scan_check(w) ==
    LET me == workers[w]
    IN  /\ me.pc = "check"
        /\ workers' = [workers EXCEPT ![w] =
             [@ EXCEPT !.pc = AfterCheck(me, calib_stop_event),
                       !.k = IF AfterCheck(me, calib_stop_event) = "move"
                             THEN @ + 1 ELSE @]]
        /\ UNCHANGED <<fit_vars, corr_vars, device_select, num_shots_spinner, from_spinner,
                       to_spinner, step_spinner, move_button, calibrate_button,
                       update_toggle, elog_buttons, is_running, ticks, periodic,
                       subscribed, buffer_autocorr, plots, calib_stop_event,
                       motor_pos>>

\* the move/write back to the initial position after the sweep, then the
\* return to _calibrate: log.info and the unlock posted by the finally clause
scan_restore(w, status) ==
    LET me == workers[w]
        at == Actuate(motor_pos[me.device_name], RestoreTarget(me), status)
    IN  /\ me.pc = "restore"
        /\ motor_pos' = [motor_pos EXCEPT ![me.device_name] = at]
        /\ workers' = [workers EXCEPT ![w] =
             [@ EXCEPT !.pc = "done",
                       !.exit_cmd = <<RestoreTarget(me), status>>,
                       !.restored = TRUE,
                       !.end_pos = at,
                       !.logged = Append(@, SuccessMessage)]]
        /\ ticks' = Append(ticks, <<"calib_unlock", 0>>)
        /\ UNCHANGED <<fit_vars, corr_vars, device_select, num_shots_spinner, from_spinner,
                       to_spinner, step_spinner, move_button, calibrate_button,
                       update_toggle, elog_buttons, is_running, periodic,
                       subscribed, buffer_autocorr, plots, calib_stop_event>>

\* ----------------------------------------------------------- specification
\* the operator's actions on the calibration of the selected device
OperatorScan ==
    \/ \E p \in MoveTargets : move_button_callback(p)
    \/ calibrate_start
    \/ calibrate_stop

\* the next-tick callbacks the calibration posts
TicksScan ==
    \/ calib_lock_gui
    \/ calib_unlock_gui
    \/ reset_calib_plot
    \/ update_calib_plot

\* the steps of the worker threads
WorkerNext ==
    \/ \E w \in Slots, a \in Froms, b \in Tos, s \in Steps :
         calibrate_begin(w, a, b, s)
    \/ \E w \in Slots : scan_read_init(w)
    \/ \E w \in Slots, status \in Statuses : scan_move(w, status)
    \/ \E w \in Slots : scan_collect(w)
    \/ \E w \in Slots : scan_check(w)
    \/ \E w \in Slots, status \in Statuses : scan_restore(w, status)

ScanNext == OperatorScan \/ TicksScan \/ WorkerNext

\* The scan controller of one device: the operator's Calibrate and Move
\* buttons, the scheduler's callbacks and the worker threads.
SpecScan == InitScan /\ [][ScanNext]_vars

\* the live session: its toggle, its lock callbacks, its periodic refresh
LiveNext ==
    \/ update_toggle_start
    \/ update_toggle_stop
    \/ live_lock_gui
    \/ live_unlock_gui
    \/ update_plots_periodic

\* values of the To spinner that give a scan of at most one position
ShortTos == {0, 1}

\* the worker threads, for scans of at most one position from position 0
WorkerShort ==
    \/ \E w \in Slots, b \in ShortTos, s \in {0, 1} :
         calibrate_begin(w, 0, b, s)
    \/ \E w \in Slots : scan_read_init(w)
    \/ \E w \in Slots, status \in Statuses : scan_move(w, status)
    \/ \E w \in Slots : scan_collect(w)
    \/ \E w \in Slots : scan_check(w)
    \/ \E w \in Slots, status \in Statuses : scan_restore(w, status)

PanelNext ==
    \/ OperatorScan
    \/ \E d \in DeviceSet : device_select_callback(d)
    \/ TicksScan
    \/ update_plots_tick
    \/ LiveNext
    \/ WorkerShort

\* The whole panel from its construction: device selection, calibration and
\* live session side by side, with scans of at most one position.
SpecPanel == Init /\ [][PanelNext]_vars

\* the device is changed while the callbacks of a scan are pending
device_select_pending(new) ==
    /\ Len(ticks) <= MaxPending
    /\ device_select_change(new)

HandOffNext ==
    \/ calibrate_start
    \/ calibrate_stop
    \/ \E d \in DeviceSet : device_select_pending(d)
    \/ TicksScan
    \/ update_plots_tick
    \/ WorkerShort

\* The calibration of a panel whose operator also changes the device, with
\* scans of at most one position: the Calibrate button, the device selector,
\* the scheduler's callbacks and the worker threads.
SpecHandOff == InitScan /\ [][HandOffNext]_vars

\* ------------------------------------------ correlation panel: operators

\* the value of channel col (1..6: x, y, intensity of the first device, then
\* of the second) in the message of pulse pid
ChannelValue(pid, col) == <<pid, col>>

\* the tuple _collect_data appends for the message of pulse pid
Sample(pid) ==
    <<pid % 2, ChannelValue(pid, 1), ChannelValue(pid, 2),
      ChannelValue(pid, 3), ChannelValue(pid, 4), ChannelValue(pid, 5),
      ChannelValue(pid, 6)>>

\* a deque that drops from its newer end when it is full
DequeAppendKeepOldest(maxlen, items, x) ==
    IF maxlen = 0 \/ Len(items) < maxlen THEN Append(items, x) ELSE items

\* deque.append: the items after appending x to a deque of capacity maxlen
\* (maxlen 0: no capacity given)
DequeAppend(maxlen, items, x) ==
    IF maxlen = 0 \/ Len(items) < maxlen
    THEN Append(items, x)
    ELSE Append(Tail(items), x)

\* a split that sends every sample to the even sources
AllEven(sample) == TRUE

\* data_array[:, 0] == 0
IsEven(sample) == sample[1] = 0

\* the rows of `rows` with column a as x and column b as y
Points(rows, a, b) == [i \in 1..Len(rows) |-> <<rows[i][a], rows[i][b]>>]

\* the new contents of the six scatter sources for a snapshot of the buffer
ParitySplit(snapshot) ==
    LET IsOdd(sample) == ~IsEven(sample)
        data_even == SelectSeq(snapshot, IsEven)
        data_odd == SelectSeq(snapshot, IsOdd)
    IN  [xcorr_even |-> Points(data_even, 2, 5),
         ycorr_even |-> Points(data_even, 3, 6),
         icorr_even |-> Points(data_even, 4, 7),
         xcorr_odd |-> Points(data_odd, 2, 5),
         ycorr_odd |-> Points(data_odd, 3, 6),
         icorr_odd |-> Points(data_odd, 4, 7)]

\* ------------------------------------------- correlation panel: widgets
\* device_select_callback, for a new value of the selector: clear the
\* buffer, post _update_plots
corr_device_select_callback ==
    /\ Cooperative
    /\ ~corr_device_select.disabled
    /\ Len(corr_ticks) < MaxTicks
    /\ corr_buffer' = [corr_buffer EXCEPT !.items = <<>>]
    /\ corr_ticks' = Append(corr_ticks, "update_plots")
    /\ UNCHANGED <<pulse_id, device_select, num_shots_spinner, from_spinner, to_spinner,
                   step_spinner, move_button, calibrate_button, update_toggle,
                   elog_buttons, is_running, ticks, periodic, subscribed,
                   buffer_autocorr, plots, calib_stop_event, workers,
                   motor_pos, fit_vars, corr_device_select,
                   corr_device2_select,
                   corr_num_shots_spinner, corr_update_toggle,
                   corr_push_elog_button, corr_periodic, collectors, corr_plots, corr_refresh>>

\* device2_select_callback, for a new value of the selector: clear the
\* buffer, post _update_plots
corr_device2_select_callback ==
    /\ Cooperative
    /\ ~corr_device2_select.disabled
    /\ Len(corr_ticks) < MaxTicks
    /\ corr_buffer' = [corr_buffer EXCEPT !.items = <<>>]
    /\ corr_ticks' = Append(corr_ticks, "update_plots")
    /\ UNCHANGED <<pulse_id, device_select, num_shots_spinner, from_spinner, to_spinner,
                   step_spinner, move_button, calibrate_button, update_toggle,
                   elog_buttons, is_running, ticks, periodic, subscribed,
                   buffer_autocorr, plots, calib_stop_event, workers,
                   motor_pos, fit_vars, corr_device_select,
                   corr_device2_select,
                   corr_num_shots_spinner, corr_update_toggle,
                   corr_push_elog_button, corr_periodic, collectors, corr_plots, corr_refresh>>

\* lowest slot that holds no running _collect_data thread
FreeCollector(c) ==
    /\ collectors[c].pc = "none"
    /\ \A d \in CollectorSlots : d < c => collectors[d].pc # "none"

\* update_toggle_callback, new = True: start the thread, register the
\* periodic refresh, disable the controls
corr_update_toggle_start ==
    /\ Cooperative
    /\ ~corr_update_toggle.active
    /\ \E c \in CollectorSlots :
         /\ FreeCollector(c)
         /\ collectors' =
              [d \in CollectorSlots |->
                 IF d = c
                 THEN [pc |-> "alloc", current |-> TRUE, since |-> pulse_id]
                 ELSE [collectors[d] EXCEPT !.current = FALSE, !.since = 0]]
    /\ corr_periodic' = TRUE
    /\ corr_device_select' = [corr_device_select EXCEPT !.disabled = TRUE]
    /\ corr_device2_select' = [corr_device2_select EXCEPT !.disabled = TRUE]
    /\ corr_num_shots_spinner' =
         [corr_num_shots_spinner EXCEPT !.disabled = TRUE]
    /\ corr_push_elog_button' = [disabled |-> TRUE]
    /\ corr_update_toggle' = [active |-> TRUE, label |-> "Stop"]
    /\ UNCHANGED <<pulse_id, device_select, num_shots_spinner, from_spinner, to_spinner,
                   step_spinner, move_button, calibrate_button, update_toggle,
                   elog_buttons, is_running, ticks, periodic, subscribed,
                   buffer_autocorr, plots, calib_stop_event, workers,
                   motor_pos, fit_vars, corr_ticks, corr_buffer, corr_plots,
                   corr_refresh>>

\* update_toggle_callback, new = False: remove the periodic refresh, enable
\* the controls; the threads are told nothing, they read update_toggle.active
corr_update_toggle_stop ==
    /\ Cooperative
    /\ corr_update_toggle.active
    /\ corr_periodic' = FALSE
    /\ corr_device_select' = [corr_device_select EXCEPT !.disabled = FALSE]
    /\ corr_device2_select' = [corr_device2_select EXCEPT !.disabled = FALSE]
    /\ corr_num_shots_spinner' =
         [corr_num_shots_spinner EXCEPT !.disabled = FALSE]
    /\ corr_push_elog_button' = [disabled |-> FALSE]
    /\ corr_update_toggle' = [active |-> FALSE, label |-> "Update"]
    /\ UNCHANGED <<pulse_id, device_select, num_shots_spinner, from_spinner, to_spinner,
                   step_spinner, move_button, calibrate_button, update_toggle,
                   elog_buttons, is_running, ticks, periodic, subscribed,
                   buffer_autocorr, plots, calib_stop_event, workers,
                   motor_pos, fit_vars, corr_ticks, corr_buffer,
                   collectors, corr_plots, corr_refresh>>

\* ------------------------------------- correlation panel: _collect_data
\* line 66: allocate the buffer of the session
collect_alloc(c) ==
    /\ collectors[c].pc = "alloc"
    /\ corr_buffer' = [maxlen |-> corr_num_shots_spinner.value,
                       items |-> <<>>]
    /\ collectors' = [collectors EXCEPT ![c].pc = "check"]
    /\ UNCHANGED <<pulse_id, device_select, num_shots_spinner, from_spinner, to_spinner,
                   step_spinner, move_button, calibrate_button, update_toggle,
                   elog_buttons, is_running, ticks, periodic, subscribed,
                   buffer_autocorr, plots, calib_stop_event, workers,
                   motor_pos, fit_vars, corr_device_select,
                   corr_device2_select, corr_num_shots_spinner,
                   corr_update_toggle, corr_push_elog_button, corr_periodic,
                   corr_ticks, corr_plots, corr_refresh>>

\* the run-flag a _collect_data thread reads at line 76
RunFlag == corr_update_toggle.active

\* line 76: while update_toggle.active
collect_check(c) ==
    /\ collectors[c].pc = "check"
    /\ collectors' = [collectors EXCEPT ![c] =
         IF RunFlag THEN [@ EXCEPT !.pc = "receive"] ELSE NoCollector]
    /\ UNCHANGED <<pulse_id, device_select, num_shots_spinner, from_spinner, to_spinner,
                   step_spinner, move_button, calibrate_button, update_toggle,
                   elog_buttons, is_running, ticks, periodic, subscribed,
                   buffer_autocorr, plots, calib_stop_event, workers,
                   motor_pos, fit_vars, corr_device_select,
                   corr_device2_select, corr_num_shots_spinner,
                   corr_update_toggle, corr_push_elog_button, corr_periodic,
                   corr_ticks, corr_buffer, corr_plots,
                   corr_refresh>>

\* lines 77-90: stream.receive() returns the message of the next pulse and
\* its tuple is appended to the deque `buffer` names at that moment
collect_receive(c) ==
    /\ collectors[c].pc = "receive"
    /\ pulse_id < MaxMessages
    /\ pulse_id' = pulse_id + 1
    /\ corr_buffer' = [corr_buffer EXCEPT !.items =
         DequeAppend(corr_buffer.maxlen, @, Sample(pulse_id))]
    /\ collectors' = [collectors EXCEPT ![c].pc = "check"]
    /\ UNCHANGED <<device_select, num_shots_spinner, from_spinner, to_spinner,
                   step_spinner, move_button, calibrate_button, update_toggle,
                   elog_buttons, is_running, ticks, periodic, subscribed,
                   buffer_autocorr, plots, calib_stop_event, workers,
                   motor_pos, fit_vars, corr_device_select,
                   corr_device2_select, corr_num_shots_spinner,
                   corr_update_toggle, corr_push_elog_button, corr_periodic,
                   corr_ticks, corr_plots, corr_refresh>>

\* ------------------------------------- correlation panel: _update_plots
\* lines 93-105: an empty buffer empties the six sources; otherwise the
\* call goes on to the snapshot
CorrCheck ==
    IF corr_buffer.items = <<>>
    THEN /\ corr_plots' = NoPoints
         /\ corr_refresh' = [pc |-> "idle"]
    ELSE /\ corr_refresh' = [pc |-> "checked"]
         /\ UNCHANGED corr_plots

\* _update_plots entered as a next-tick callback
corr_update_plots_tick ==
    /\ Cooperative
    /\ corr_ticks # <<>>
    /\ corr_ticks' = Tail(corr_ticks)
    /\ CorrCheck
    /\ UNCHANGED <<pulse_id, device_select, num_shots_spinner, from_spinner, to_spinner,
                   step_spinner, move_button, calibrate_button, update_toggle,
                   elog_buttons, is_running, ticks, periodic, subscribed,
                   buffer_autocorr, plots, calib_stop_event, workers,
                   motor_pos, fit_vars, corr_device_select,
                   corr_device2_select, corr_num_shots_spinner,
                   corr_update_toggle, corr_push_elog_button, corr_periodic,
                   corr_buffer, collectors>>

\* _update_plots entered by the periodic callback of a live session
corr_update_plots_periodic ==
    /\ Cooperative
    /\ corr_periodic
    /\ CorrCheck
    /\ UNCHANGED <<pulse_id, device_select, num_shots_spinner, from_spinner, to_spinner,
                   step_spinner, move_button, calibrate_button, update_toggle,
                   elog_buttons, is_running, ticks, periodic, subscribed,
                   buffer_autocorr, plots, calib_stop_event, workers,
                   motor_pos, fit_vars, corr_device_select,
                   corr_device2_select, corr_num_shots_spinner,
                   corr_update_toggle, corr_push_elog_button, corr_periodic,
                   corr_ticks, corr_buffer, collectors>>

\* lines 113-124: np.array(buffer) and the split. A deque that a new thread
\* has allocated since the check is empty, and data_array[:, 0] raises.
corr_update_plots_emit ==
    /\ corr_refresh.pc = "checked"
    /\ IF corr_buffer.items = <<>>
       THEN UNCHANGED corr_plots
       ELSE corr_plots' = ParitySplit(corr_buffer.items)
    /\ corr_refresh' = [pc |-> "idle"]
    /\ UNCHANGED <<pulse_id, device_select, num_shots_spinner, from_spinner, to_spinner,
                   step_spinner, move_button, calibrate_button, update_toggle,
                   elog_buttons, is_running, ticks, periodic, subscribed,
                   buffer_autocorr, plots, calib_stop_event, workers,
                   motor_pos, fit_vars, corr_device_select,
                   corr_device2_select, corr_num_shots_spinner,
                   corr_update_toggle, corr_push_elog_button, corr_periodic,
                   corr_ticks, corr_buffer, collectors>>

\* ------------------------------------ correlation panel: specification
CorrOperator ==
    \/ corr_device_select_callback
    \/ corr_device2_select_callback
    \/ corr_update_toggle_start
    \/ corr_update_toggle_stop

CorrCollect ==
    \/ \E c \in CollectorSlots : collect_alloc(c)
    \/ \E c \in CollectorSlots : collect_check(c)
    \/ \E c \in CollectorSlots : collect_receive(c)

CorrRefresh ==
    \/ corr_update_plots_tick
    \/ corr_update_plots_periodic
    \/ corr_update_plots_emit

CorrNext == CorrOperator \/ CorrCollect \/ CorrRefresh

\* The correlation panel from its construction; the spectral panel is left
\* as constructed.
SpecCorr == Init /\ [][CorrNext]_vars

\* ------------------------------------- spectral panel: the live session
\* the variables of the calibration scan
scan_vars ==
    <<from_spinner, to_spinner, step_spinner, move_button, calibrate_button,
      calib_stop_event, workers, motor_pos>>

\* values the operator types into the "Number shots" spinner (low=1)
ShotCounts == 1..MaxShots

\* the operator types a shot count; the spinner has no callback
num_shots_spinner_set(v) ==
    /\ Cooperative
    /\ ~num_shots_spinner.disabled
    /\ v # num_shots_spinner.value
    /\ num_shots_spinner' = [num_shots_spinner EXCEPT !.value = v]
    /\ UNCHANGED <<device_select, update_toggle, elog_buttons, is_running,
                   ticks, periodic, subscribed, buffer_autocorr, plots,
                   scan_vars, fit_vars, corr_vars>>

\* the autocorrelation update_y computes from the k-th waveform delivered
\* since the buffer was allocated or cleared
Autocorrelation(k) == <<"correlate", k>>

\* update_x, on the thread of the subscription: the axis changed, clear the
\* buffer
update_x ==
    /\ subscribed # {}
    /\ buffer_autocorr' = [buffer_autocorr EXCEPT !.items = <<>>]
    /\ pushed' = <<>>
    /\ UNCHANGED <<device_select, num_shots_spinner, update_toggle,
                   elog_buttons, is_running, ticks, periodic, subscribed,
                   plots, refresh, scan_vars, corr_vars>>

\* update_y, on the thread of the subscription: append the autocorrelation
\* of the waveform
update_y ==
    /\ subscribed # {}
    /\ Len(pushed) < MaxPush
    /\ LET sample == Autocorrelation(Len(pushed) + 1)
       IN  /\ buffer_autocorr' = [buffer_autocorr EXCEPT !.items =
                DequeAppend(buffer_autocorr.maxlen, @, sample)]
           /\ pushed' = Append(pushed, sample)
    /\ UNCHANGED <<device_select, num_shots_spinner, update_toggle,
                   elog_buttons, is_running, ticks, periodic, subscribed,
                   plots, refresh, scan_vars, corr_vars>>

\* fitted widths of the three gaussians, multiples of 1.4 scaled by 5
Fwhms == {7, 35, 63}
\* indices of the components g0_, g1_, g2_
Components == 0..2
\* fit_result.values["g0_fwhm"], ["g1_fwhm"], ["g2_fwhm"]
FwhmTriples == [Components -> Fwhms]

\* widths in the ratio 5 : 1 : 9 for g0, g1, g2: the spike came out of g1
SwappedFwhm == [i \in Components |-> <<35, 7, 63>>[i + 1]]

\* orders of the three component indices
Orders ==
    {o \in [1..3 -> Components] : \A i, j \in 1..3 : i # j => o[i] # o[j]}

\* the components in the order of the initial guesses
ArgsortAsGuessed(fwhm) == {[i \in 1..3 |-> i - 1]}

\* np.argsort(fwhm): the orders that sort the widths ascending (the order
\* of equal widths depends on the sort the build uses)
Argsort(fwhm) ==
    {o \in Orders : fwhm[o[1]] <= fwhm[o[2]] /\ fwhm[o[2]] <= fwhm[o[3]]}

\* v / 1.4
AutocorrToGaussian(v) == (v * 10) \div 14

\* lines 397-408: what the refresh emits for the fitted widths fwhm and the
\* order np.argsort returned: the component whose curve is drawn as y_spike,
\* y_env, y_bkg and the entry of the FWHM history
Resolve(fwhm, order) ==
    LET spike_ind == order[1]
        env_idx == order[2]
        bkg_idx == order[3]
    IN  [fwhm |-> fwhm,
         y_spike |-> spike_ind, y_env |-> env_idx, y_bkg |-> bkg_idx,
         fwhm_spike |-> AutocorrToGaussian(fwhm[spike_ind]),
         fwhm_env |-> AutocorrToGaussian(fwhm[env_idx]),
         fwhm_bkg |-> AutocorrToGaussian(fwhm[bkg_idx])]

\* a guard that ends the call for an empty buffer only
LiveCheckNonEmpty ==
    IF buffer_autocorr.items = <<>>
    THEN /\ plots' = [plots EXCEPT !.autocorr = "empty", !.fwhm = 0]
         /\ refresh' = [NoRefresh EXCEPT !.raised = refresh.raised]
    ELSE /\ refresh' = [NoRefresh EXCEPT !.pc = "checked",
                                         !.raised = refresh.raised]
         /\ UNCHANGED plots

\* lines 377-382: fewer than MIN_SAMPLES samples empty the two sources and
\* end the call; otherwise the call goes on to the snapshot
LiveCheck ==
    IF Len(buffer_autocorr.items) < MIN_SAMPLES
    THEN /\ plots' = [plots EXCEPT !.autocorr = "empty", !.fwhm = 0]
         /\ refresh' = [NoRefresh EXCEPT !.raised = refresh.raised]
    ELSE /\ refresh' = [NoRefresh EXCEPT !.pc = "checked",
                                         !.raised = refresh.raised]
         /\ UNCHANGED plots

\* _update_plots entered as a next-tick callback
update_plots_enter_tick ==
    /\ Cooperative
    /\ NextTick("update_plots")
    /\ plots.fwhm < MaxHistory \/ Len(buffer_autocorr.items) < MIN_SAMPLES
    /\ ticks' = Tail(ticks)
    /\ LiveCheck
    /\ UNCHANGED <<device_select, num_shots_spinner, update_toggle,
                   elog_buttons, is_running, periodic, subscribed,
                   buffer_autocorr, pushed, scan_vars, corr_vars>>

\* _update_plots entered by the periodic callback of a live session
update_plots_enter_periodic ==
    /\ Cooperative
    /\ periodic
    /\ plots.fwhm < MaxHistory \/ Len(buffer_autocorr.items) < MIN_SAMPLES
    /\ LiveCheck
    /\ UNCHANGED <<device_select, num_shots_spinner, update_toggle,
                   elog_buttons, is_running, ticks, periodic, subscribed,
                   buffer_autocorr, pushed, scan_vars, corr_vars>>

\* lines 384-408 with a fit that returns the widths fwhm: snapshot, mean,
\* fit, argsort.
\* The mean of an empty snapshot is nan, which the fit rejects.
update_plots_fit(fwhm) ==
    /\ refresh.pc = "checked"
    /\ Len(buffer_autocorr.items) > 0
    /\ \E order \in Argsort(fwhm) :
         refresh' = [pc |-> "fitted", n |-> Len(buffer_autocorr.items),
                     fit |-> Resolve(fwhm, order), raised |-> refresh.raised]
    /\ UNCHANGED <<device_select, num_shots_spinner, update_toggle,
                   elog_buttons, is_running, ticks, periodic, subscribed,
                   buffer_autocorr, pushed, plots, scan_vars, corr_vars>>

\* a fit failure that is handled by emptying the displayed series
update_plots_raise_clearing ==
    /\ refresh.pc = "checked"
    /\ refresh' = [NoRefresh EXCEPT !.raised = TRUE]
    /\ plots' = [plots EXCEPT !.autocorr = "empty", !.fwhm = 0]
    /\ UNCHANGED <<device_select, num_shots_spinner, update_toggle,
                   elog_buttons, is_running, ticks, periodic, subscribed,
                   buffer_autocorr, pushed, scan_vars, corr_vars>>

\* lines 384-388 with a fit that raises: the coroutine ends at line 388
update_plots_raise ==
    /\ refresh.pc = "checked"
    /\ refresh' = [NoRefresh EXCEPT !.raised = TRUE]
    /\ UNCHANGED <<device_select, num_shots_spinner, update_toggle,
                   elog_buttons, is_running, ticks, periodic, subscribed,
                   buffer_autocorr, pushed, plots, scan_vars, corr_vars>>

\* lines 411-422: update of the curves, one entry streamed to the FWHM
\* history
update_plots_emit ==
    /\ refresh.pc = "fitted"
    /\ plots' = [plots EXCEPT !.autocorr = "fit",
                              !.fwhm = IF @ < ROLLOVER THEN @ + 1 ELSE @]
    /\ refresh' = NoRefresh
    /\ UNCHANGED <<device_select, num_shots_spinner, update_toggle,
                   elog_buttons, is_running, ticks, periodic, subscribed,
                   buffer_autocorr, pushed, scan_vars, corr_vars>>

\* the operator of the live session
LiveOperator ==
    \/ \E v \in ShotCounts : num_shots_spinner_set(v)
    \/ \E d \in DeviceSet : device_select_callback(d)
    \/ update_toggle_start
    \/ update_toggle_stop

\* the next-tick callbacks of the live session
LiveTicks ==
    \/ live_lock_gui
    \/ live_unlock_gui
    \/ reset_calib_plot

\* the callbacks of the SPECTRUM_X and SPECTRUM_Y subscriptions
LiveProducer ==
    \/ update_x
    \/ update_y

\* _update_plots, statement by statement
LiveRefresh ==
    \/ update_plots_enter_tick
    \/ update_plots_enter_periodic
    \/ update_plots_fit(SwappedFwhm)
    \/ update_plots_raise
    \/ update_plots_emit

LiveSessionNext == LiveOperator \/ LiveTicks \/ LiveProducer \/ LiveRefresh

\* The live session of the spectral panel from its construction, with the
\* subscription callbacks and the refresh; no calibration scan. The fit
\* returns the widths of SwappedFwhm.
SpecLive == Init /\ [][LiveSessionNext]_vars

\* The panel once a live session of devices[0] has been started and
\* _live_lock_gui has run: Init after its two callbacks, update_toggle_start
\* and live_lock_gui.
InitFit ==
    /\ device_select = [value |-> devices[1], disabled |-> TRUE]
    /\ num_shots_spinner = [value |-> DefaultShots, disabled |-> TRUE]
    /\ from_spinner = [disabled |-> FALSE]
    /\ to_spinner = [disabled |-> FALSE]
    /\ step_spinner = [disabled |-> FALSE]
    /\ move_button = [disabled |-> FALSE]
    /\ calibrate_button =
         [active |-> FALSE, disabled |-> FALSE, label |-> "Calibrate"]
    /\ update_toggle = [active |-> TRUE, label |-> "Stop"]
    /\ elog_buttons = [calib |-> FALSE, fit |-> TRUE]
    /\ is_running = [calib |-> FALSE, live |-> TRUE]
    /\ ticks = <<>>
    /\ periodic = TRUE
    /\ subscribed = {devices[1]}
    /\ buffer_autocorr = [maxlen |-> DefaultShots, items |-> <<>>]
    /\ plots = [autocorr |-> "empty", fwhm |-> 0, calib |-> <<>>]
    /\ calib_stop_event = FALSE
    /\ workers = [w \in Slots |-> NoWorker]
    /\ motor_pos = [x \in DeviceSet |-> 0]
    /\ refresh = NoRefresh
    /\ pushed = <<>>
    /\ CorrInit

\* the refresh of a running live session, for every fit result
FitNext ==
    \/ LiveProducer
    \/ update_plots_enter_periodic
    \/ \E fwhm \in FwhmTriples : update_plots_fit(fwhm)
    \/ update_plots_raise
    \/ update_plots_emit

\* One live session of the spectral panel, its subscription callbacks and
\* its periodic refresh, the fit returning any three widths.
SpecFit == InitFit /\ [][FitNext]_vars

\* ----------------------------------------------- the three thread kinds
\* no calibration scan has been started and the actuators have not moved
ScanAsConstructed ==
    /\ ~calibrate_button.active
    /\ ~is_running.calib
    /\ ~calib_stop_event
    /\ workers = [w \in Slots |-> NoWorker]
    /\ motor_pos = [d \in DeviceSet |-> 0]
    /\ plots.calib = <<>>

\* no live session of the spectral panel has been started
LiveAsConstructed ==
    /\ ~update_toggle.active
    /\ ~is_running.live
    /\ ~periodic
    /\ subscribed = {}
    /\ buffer_autocorr = [maxlen |-> 0, items |-> <<>>]
    /\ num_shots_spinner.value = DefaultShots
    /\ plots.autocorr = "empty"
    /\ plots.fwhm = 0
    /\ refresh = NoRefresh

\* no session of the correlation panel has been started
CorrAsConstructed ==
    /\ ~corr_update_toggle.active
    /\ ~corr_periodic
    /\ collectors = [c \in CollectorSlots |-> NoCollector]
    /\ corr_buffer = [maxlen |-> 0, items |-> <<>>]
    /\ corr_plots = NoPoints
    /\ corr_refresh.pc = "idle"
    /\ pulse_id = 0

\* the spectral panel as constructed, its first callbacks run
SpectralSettled ==
    /\ ScanAsConstructed
    /\ LiveAsConstructed
    /\ device_select.value = devices[1]
    /\ ticks = <<>>

\* the correlation panel as constructed, its first callbacks run
CorrSettled == CorrAsConstructed /\ corr_ticks = <<>>

\* the callbacks that create() posted
FirstCallbacks ==
    /\ ScanAsConstructed
    /\ LiveAsConstructed
    /\ CorrAsConstructed
    /\ (update_plots_enter_tick \/ reset_calib_plot \/ corr_update_plots_tick)

\* a calibration scan, while the live session and the correlation panel are
\* as constructed
SinksScan ==
    /\ LiveAsConstructed
    /\ CorrSettled
    /\ (OperatorScan \/ TicksScan \/ WorkerShort)

\* a live session of the spectral panel, while the scan and the correlation
\* panel are as constructed
SinksLive ==
    /\ ScanAsConstructed
    /\ CorrSettled
    /\ LiveSessionNext

\* the correlation panel, while the spectral panel is as constructed
SinksCorr ==
    /\ SpectralSettled
    /\ CorrNext

\* the operator uses one of the three at a time
SinksNext == FirstCallbacks \/ SinksScan \/ SinksLive \/ SinksCorr

\* The scan worker, the subscription callbacks and the _collect_data thread
\* in one specification, each next to the callbacks that update its plots.
SpecSinks == Init /\ [][SinksNext]_vars

\* ------------------------------------------------- properties of the scan
Min(a, b) == IF a < b THEN a ELSE b

\* the scan function raised ValueError out of the sweep
Raised(w) == w.pc = "done" /\ ~w.restored
\* the scan collected every position of its range
Completed(w) == w.pc = "done" /\ w.scan_mean = w.scan_range
\* the stop event was set during position stop_at and that point was collected
Cancelled(w) ==
    /\ w.pc = "done"
    /\ w.stop_at > 0
    /\ w.scan_mean = SubSeq(w.scan_range, 1, Min(w.stop_at, Len(w.scan_range)))
\* callbacks of the calibration are pending
CalibTickPending ==
    \E i \in 1..Len(ticks) : ticks[i][1] \in {"calib_lock", "calib_unlock"}

\* C1: a scan that ends because a move/write reported a non-success status
\* has commanded the actuator back to the position read at scan start before
\* its thread returns: the scan does not end with the actuator left at a scan
\* position.
C1_RestoreOnError ==
    \A w \in Slots :
        (workers[w].pc = "done" /\ workers[w].bad_status
            /\ workers[w].logged # <<SuccessMessage>>)
        => \/ workers[w].end_pos = workers[w].init
           \/ \A i \in 1..Len(workers[w].scan_range) :
                 workers[w].end_pos # workers[w].scan_range[i]

C3_IdleAfterScan ==
    (/\ \A w \in Slots : ~Alive(workers[w])
     /\ ~CalibTickPending
     /\ ~is_running.calib)
    => (~calibrate_button.disabled /\ ~calibrate_button.active)

SortedSeq(S) ==
    CHOOSE q \in [1..Cardinality(S) -> S] :
        \A i, j \in 1..Cardinality(S) : i < j => q[i] < q[j]

\* start, start+step, start+2*step, ... strictly below stop, for step > 0
PositionsBelow(start, stop, step) ==
    SortedSeq({x \in start..(stop - 1) : (x - start) % step = 0})

\* a scan that was neither cancelled nor hit a non-success status
CleanRun(w) == w.pc = "done" /\ w.stop_at = 0 /\ ~w.bad_status

\* C5: with no cancellation and no actuation error, a scan with parameters
\* (start, stop, step), step > 0, moves the actuator to exactly the positions
\* start, start+step, ... strictly below stop, each once and in ascending
\* order, and collects (and hands over) one result per position.
C5_ScanPositions ==
    /\ [](\A w \in Slots :
            CleanRun(workers[w])
            => /\ workers[w].moved = workers[w].scan_range
               /\ workers[w].scan_mean = workers[w].scan_range
               /\ workers[w].handed = workers[w].scan_range)
    /\ [][\A w \in Slots :
            workers[w].pc = "start"
            => \A a \in Froms, b \in Tos, s \in Steps :
                 (s > 0 /\ calibrate_begin(w, a, b, s))
                 => workers'[w].scan_range = PositionsBelow(a, b, s)]_vars

\* C5 witness: a clean scan of From 0, To 3, Step 2 has visited 0 and 2
C5_Witness ==
    \E w \in Slots :
        /\ CleanRun(workers[w])
        /\ workers[w].scan_range = PositionsBelow(0, 3, 2)
        /\ workers[w].moved = <<0, 2>>
        /\ workers[w].scan_mean = <<0, 2>>

\* C6: in a motor scan a move that returns a non-zero status ends the scan
\* at that position: no data is collected and no point handed over for that
\* position or a later one; status -12 logs the soft-limit error naming the
\* low and high limits, any other status the generic error with the status.
C6_MotorAbort ==
    \A w \in Slots :
        (workers[w].scan_func = "motor_scan" /\ workers[w].bad_status)
        => /\ workers[w].pc = "done"
           /\ workers[w].moved = SubSeq(workers[w].scan_range, 1, workers[w].k)
           /\ workers[w].scan_mean =
                SubSeq(workers[w].scan_range, 1, workers[w].k - 1)
           /\ workers[w].handed = workers[w].scan_mean
           /\ Len(workers[w].logged) = 1
           /\ IF workers[w].exit_cmd[2] = OUTSIDE_SOFT_LIMITS
              THEN workers[w].logged[1] =
                     <<"error", "Motor position outside soft limits",
                       "LLM", "HLM">>
              ELSE workers[w].logged[1] =
                     <<"error", "Error moving the motor",
                       workers[w].exit_cmd[2]>>

\* C6 witness: the move to the second position of a motor scan was refused
\* by the soft limits
C6_Witness ==
    \E w \in Slots :
        /\ workers[w].scan_func = "motor_scan"
        /\ workers[w].bad_status
        /\ workers[w].k = 2
        /\ workers[w].exit_cmd[2] = OUTSIDE_SOFT_LIMITS
        /\ Len(workers[w].scan_mean) = 1

\* C7: in a scan of a generic control point a write that returns a
\* non-success status ends the scan: the position is not acquired and the
\* failure, not the success, is logged.
C7_PvAbort ==
    \A w \in Slots :
        (workers[w].scan_func = "pv_scan" /\ workers[w].bad_status
            /\ workers[w].pc = "done")
        => /\ Len(workers[w].scan_mean) < Len(workers[w].moved)
           /\ workers[w].logged # <<SuccessMessage>>

\* C8: an actuation error ends only the current scan: the error is logged
\* and the success message is not, the thread returns and posts the unlock,
\* and once that unlock has run the controls are unlocked and the calibrate
\* control starts a scan again.
C8_ErrorEndsOnlyScan ==
    /\ [](\A w \in Slots :
            Raised(workers[w])
            => /\ Len(workers[w].logged) = 1
               /\ workers[w].logged[1][1] = "error"
               /\ \E i \in 1..Len(ticks) : ticks[i][1] = "calib_unlock")
    /\ [][((\E w \in Slots : Raised(workers[w])) /\ calib_unlock_gui)
            => /\ ~move_button'.disabled
               /\ ~from_spinner'.disabled
               /\ ~calibrate_button'.disabled
               /\ ~calibrate_button'.active]_vars

\* C9: a start request with step 0 is rejected before any actuator command,
\* and the controller ends Idle: once the scheduler has run the pending
\* callbacks the calibration controls are unlocked.
C9_ZeroStepRejected ==
    \A w \in Slots :
        workers[w].pc = "crashed"
        => /\ workers[w].moved = <<>>
           /\ ticks = <<>>
              => /\ ~is_running.calib
                 /\ ~from_spinner.disabled
                 /\ ~move_button.disabled
                 /\ ~calibrate_button.disabled
                 /\ ~calibrate_button.active

LiveTickPending ==
    \E i \in 1..Len(ticks) : ticks[i][1] \in {"live_lock", "live_unlock"}

\* C11: after any sequence of lock/unlock callbacks of the calibration and
\* the live session, the device selector and the shot-count control are
\* enabled only if neither the calibration flag nor the live flag is set; an
\* unlock of one session that runs while the flag of the other is set leaves
\* both controls disabled.
C11_BusyFlagRelease ==
    /\ []((~device_select.disabled \/ ~num_shots_spinner.disabled)
            => (~is_running.calib /\ ~is_running.live))
    /\ [][((live_unlock_gui /\ is_running.calib)
             \/ (calib_unlock_gui /\ is_running.live))
            => (device_select'.disabled /\ num_shots_spinner'.disabled)]_vars

\* C11 witness: a live session was started and has been unlocked again, the
\* calibration flag is set with its worker in the sweep, and the selector and
\* the shot-count control are still disabled
C11_Witness ==
    /\ is_running.calib
    /\ ~is_running.live
    /\ buffer_autocorr.maxlen > 0
    /\ ~update_toggle.active
    /\ ~LiveTickPending
    /\ \E w \in Slots : Alive(workers[w])
    /\ device_select.disabled
    /\ num_shots_spinner.disabled

\* ------------------------------------ properties of the correlation panel
\* the pulse id a buffered tuple was built from
PulseOf(sample) == sample[2][1]

\* a stop of the toggle has been processed since thread c was started
Stopped(c) ==
    /\ collectors[c].pc # "none"
    /\ (~collectors[c].current \/ ~corr_update_toggle.active)

\* C13: the buffer of the correlation view has one producer: at any time at
\* most one _collect_data thread is inside its loop past the run-flag check,
\* about to append to the current buffer.
C13_SingleProducer ==
    Cardinality({c \in CollectorSlots : collectors[c].pc = "receive"}) <= 1

\* C14: once a stop of the live session is processed the periodic refresh
\* is cancelled, and a collection thread that was running when the stop was
\* processed observes the cleared run-flag at its next check and exits: it
\* does not go back to receive.
C14_StopEndsProducer ==
    /\ [](~corr_update_toggle.active => ~corr_periodic)
    /\ [][\A c \in CollectorSlots :
            (Stopped(c) /\ collectors[c].pc = "check")
            => collectors'[c].pc # "receive"]_vars

\* C15: a refresh that runs during a live session emits no sample that was
\* pushed before the start of that session.
C15_FreshBufferAtStart ==
    [][(corr_update_plots_emit /\ corr_update_toggle.active)
        => \A c \in CollectorSlots :
             collectors[c].current
             => \A i \in 1..Len(corr_buffer.items) :
                  PulseOf(corr_buffer.items[i]) >= collectors[c].since]_vars

\* ------------------------------------------------ properties: parity split
\* pulse ids of the buffered samples, in buffer order
BufferPulses == [i \in 1..Len(corr_buffer.items) |-> PulseOf(corr_buffer.items[i])]

\* pulse ids of the buffered samples of one parity, in buffer order
PulsesOfParity(r) == SelectSeq(BufferPulses, LAMBDA p : p % 2 = r)

\* a point set holds, in order, one point per pulse of pulses, each point
\* pairing channel a with channel b of that pulse
PointsOfPulses(points, pulses, a, b) ==
    /\ Len(points) = Len(pulses)
    /\ \A i \in 1..Len(points) :
         points[i] = <<ChannelValue(pulses[i], a), ChannelValue(pulses[i], b)>>

\* C19: a correlation refresh that snapshots a non-empty buffer emits, for
\* each of the x, y and intensity axis pairs, an even set holding exactly the
\* buffered samples with pulse_id % 2 = 0 and an odd set holding exactly those
\* with pulse_id % 2 = 1, both in buffer order; every sample is in exactly one
\* of the two sets.
C19_ParitySplit ==
    [][(corr_refresh.pc = "checked" /\ corr_refresh'.pc = "idle"
          /\ corr_buffer.items # <<>>)
       => /\ PointsOfPulses(corr_plots'.xcorr_even, PulsesOfParity(0), 1, 4)
          /\ PointsOfPulses(corr_plots'.ycorr_even, PulsesOfParity(0), 2, 5)
          /\ PointsOfPulses(corr_plots'.icorr_even, PulsesOfParity(0), 3, 6)
          /\ PointsOfPulses(corr_plots'.xcorr_odd, PulsesOfParity(1), 1, 4)
          /\ PointsOfPulses(corr_plots'.ycorr_odd, PulsesOfParity(1), 2, 5)
          /\ PointsOfPulses(corr_plots'.icorr_odd, PulsesOfParity(1), 3, 6)
          /\ Len(corr_plots'.xcorr_even) + Len(corr_plots'.xcorr_odd)
               = Len(corr_buffer.items)]_vars

\* a refresh has emitted a buffer holding pulses of both parities
C19_Witness ==
    /\ corr_refresh.pc = "idle"
    /\ corr_plots.xcorr_even # <<>>
    /\ corr_plots.xcorr_odd # <<>>
    /\ Len(corr_plots.xcorr_even) + Len(corr_plots.xcorr_odd) = Len(corr_buffer.items)
    /\ PointsOfPulses(corr_plots.xcorr_odd, PulsesOfParity(1), 1, 4)

\* --------------------------------------- properties: the spectral refresh
\* C16: whenever the rolling buffer has a capacity c > 0 and k samples have
\* been pushed since it was allocated or cleared, its length is min(k, c),
\* never more than c, and it holds the last min(k, c) pushed samples in push
\* order.
C16_RollingBufferBound ==
    buffer_autocorr.maxlen > 0 =>
        LET c == buffer_autocorr.maxlen
            k == Len(pushed)
            kept == Min(k, c)
        IN  /\ Len(buffer_autocorr.items) = kept
            /\ Len(buffer_autocorr.items) <= c
            /\ buffer_autocorr.items = SubSeq(pushed, k - kept + 1, k)

\* more samples were pushed than the buffer holds, and the oldest are gone
C16_Witness ==
    /\ buffer_autocorr.maxlen = 2
    /\ Len(pushed) = 4
    /\ buffer_autocorr.items = <<Autocorrelation(3), Autocorrelation(4)>>

\* C17: a spectral refresh that finds fewer than 4 samples in the buffer
\* empties the autocorrelation, fit and component series and the FWHM
\* history and ends there: it runs no fit and raises nothing.
C17_InsufficientDataGuard ==
    [][((update_plots_enter_tick \/ update_plots_enter_periodic)
          /\ Len(buffer_autocorr.items) < 4)
       => /\ plots'.autocorr = "empty"
          /\ plots'.fwhm = 0
          /\ refresh'.pc = "idle"]_vars

\* a live session whose buffer holds one to three samples, with empty series
\* displayed and no refresh in progress
C17_Witness ==
    /\ update_toggle.active
    /\ periodic
    /\ is_running.live
    /\ Len(buffer_autocorr.items) \in 1..3
    /\ plots.autocorr = "empty"
    /\ plots.fwhm = 0
    /\ refresh.pc = "idle"

\* the smallest, the largest and the middle of three widths
Smallest(fwhm) == CHOOSE v \in Fwhms :
    (\E i \in Components : fwhm[i] = v) /\ \A i \in Components : v <= fwhm[i]
Largest(fwhm) == CHOOSE v \in Fwhms :
    (\E i \in Components : fwhm[i] = v) /\ \A i \in Components : v >= fwhm[i]
Middle(fwhm) == fwhm[0] + fwhm[1] + fwhm[2] - Smallest(fwhm) - Largest(fwhm)

\* C18: whatever the fitted widths of g0, g1, g2, the refresh emits the
\* smallest as spike, the middle as envelope and the largest as background
\* (each divided by 1.4), the three labels go to three distinct components,
\* each labelled curve is the curve of the component whose width carries the
\* label, and the emitted entry has spike <= envelope <= background.
C18_ComponentIdentity ==
    refresh.pc = "fitted" =>
        LET f == refresh.fit
        IN  /\ f.fwhm_spike = AutocorrToGaussian(Smallest(f.fwhm))
            /\ f.fwhm_env = AutocorrToGaussian(Middle(f.fwhm))
            /\ f.fwhm_bkg = AutocorrToGaussian(Largest(f.fwhm))
            /\ {f.y_spike, f.y_env, f.y_bkg} = Components
            /\ f.fwhm_spike = AutocorrToGaussian(f.fwhm[f.y_spike])
            /\ f.fwhm_env = AutocorrToGaussian(f.fwhm[f.y_env])
            /\ f.fwhm_bkg = AutocorrToGaussian(f.fwhm[f.y_bkg])
            /\ f.fwhm_spike <= f.fwhm_env
            /\ f.fwhm_env <= f.fwhm_bkg

\* the fit returned widths in the ratio 5 : 1 : 9 for g0, g1, g2
C18_Witness ==
    /\ refresh.pc = "fitted"
    /\ refresh.fit.fwhm = SwappedFwhm
    /\ refresh.fit.y_spike = 1
    /\ refresh.fit.y_env = 0
    /\ refresh.fit.y_bkg = 2
    /\ refresh.fit.fwhm_spike = 5
    /\ refresh.fit.fwhm_env = 25
    /\ refresh.fit.fwhm_bkg = 45

\* C20: the snapshot a spectral refresh averages and fits holds at least 4
\* samples, whatever the subscription callbacks did since its length check.
C20_SnapshotAgreesWithCheck ==
    refresh.pc = "fitted" => refresh.n >= 4

\* the state SpecFit starts from is a state of the live session
InitFitReached == InitFit

\* ------------------------------------------- properties: the plot sinks
\* a step of a scan worker thread
WorkerStep ==
    \E w \in Slots : Alive(workers[w]) /\ workers'[w] # workers[w]

\* a step of a _collect_data thread
CollectorStep ==
    \E c \in CollectorSlots :
        collectors[c].pc # "none" /\ collectors'[c].pc # collectors[c].pc

\* the contents of the autocorrelation, FWHM-history and calibration sources
\* or of the correlation sources change
SinkMutated == plots' # plots \/ corr_plots' # corr_plots

\* C12: the plot sources are mutated only by callbacks the scheduler runs
\* (a next-tick callback, the periodic refresh or the rest of a refresh
\* coroutine); no step of a scan worker, of a _collect_data thread or of a
\* subscription callback changes a source.
C12_SinksOnScheduler ==
    /\ [][(WorkerStep \/ CollectorStep \/ update_x \/ update_y)
          => ~SinkMutated]_vars
    /\ [][plots' # plots
          => \/ ticks # <<>> /\ ticks' = Tail(ticks)
             \/ periodic
             \/ refresh.pc = "fitted"]_vars
    /\ [][corr_plots' # corr_plots
          => \/ corr_ticks # <<>> /\ corr_ticks' = Tail(corr_ticks)
             \/ corr_periodic
             \/ corr_refresh.pc = "checked"]_vars

\* a worker has handed a point to the scheduler and _update_calib_plot has
\* streamed it
C12_Witness ==
    \E w \in Slots :
        /\ workers[w].handed # <<>>
        /\ plots.calib = workers[w].handed
        /\ ticks = <<>>

\* ------------------------------------ properties: a fit that raises
\* C21: in a refresh cycle whose fit raises, from the length check to the
\* exception, no step changes the autocorrelation curves or the FWHM history,
\* and the exception leaves the periodic refresh registered and the
\* subscriptions in place; the next cycle whose fit returns updates the
\* curves and streams one entry to the history.
C21_FitFailureContained ==
    /\ [][(refresh.pc = "idle" /\ refresh'.pc = "checked")
          => plots' = plots]_vars
    /\ [][(refresh.pc = "checked" /\ refresh'.pc # "fitted")
          => /\ plots' = plots
             /\ periodic' = periodic
             /\ subscribed' = subscribed]_vars
    /\ [][(refresh.pc = "fitted" /\ refresh.raised /\ refresh'.pc = "idle")
          => /\ plots'.autocorr = "fit"
             /\ plots'.fwhm = Min(plots.fwhm + 1, ROLLOVER)
             /\ ~refresh'.raised]_vars

\* a fit has raised in a running session and the curves and the entry of the
\* fit before it are still displayed
C21_Witness ==
    /\ refresh.pc = "idle"
    /\ refresh.raised
    /\ periodic
    /\ subscribed # {}
    /\ plots.autocorr = "fit"
    /\ plots.fwhm = 1

\* after a fit that raised, the fit of a later cycle has returned
C21_LaterFit == refresh.pc = "fitted" /\ refresh.raised

\* ------------------------------------------ properties: one scan worker
\* a worker thread between the start of its thread and the end of its scan
\* function's restore
InSweep(w) == w.pc \in {"start", "origin", "move", "collect", "check", "restore"}

\* a calib_unlock callback is pending
UnlockPending == \E i \in 1..Len(ticks) : ticks[i][1] = "calib_unlock"

\* C23: at most one scan worker thread is in its sweep at any time, and a
\* press of the calibrate control starts a worker only when no thread is in
\* its sweep and no unlock of an earlier scan is still to run.
C23_OneScanWorker ==
    /\ [](Cardinality({w \in Slots : InSweep(workers[w])}) <= 1)
    /\ [][(\E w \in Slots : workers[w].pc # "start" /\ workers'[w].pc = "start")
          => /\ \A v \in Slots : ~InSweep(workers[v])
             /\ ~UnlockPending]_vars

\* a worker thread has been started while the calibration plot still shows
\* the points of the scan before it
C23_Witness ==
    \E w \in Slots :
      /\ workers[w].pc = "start"
      /\ plots.calib # <<>>
      /\ \A v \in Slots \ {w} : workers[v].pc = "none"

\* ------------------------------- properties: the scan's hold on the device
\* a scan function has read the origin of its actuator and has not yet
\* completed the command that restores it
HoldsOrigin(w) == w.pc \in {"move", "collect", "check", "restore"}

\* C24: while a scan is between recording its origin and restoring it, no
\* manual Move write and no device change is accepted: no step of the Move
\* button is taken, and the selected device stays the one the scan drives.
C24_ScanHoldsDevice ==
    [][(\E w \in Slots : HoldsOrigin(workers[w]))
       => /\ \A p \in MoveTargets : ~move_button_callback(p)
          /\ device_select'.value = device_select.value]_vars

\* --------------------------------- properties: calibration hand-off order
\* the positions of the _update_calib_plot callbacks that are still to run,
\* in the order of the queue
PendingPoints ==
    LET sel == SelectSeq(ticks, LAMBDA t : t[1] = "update_calib_plot")
    IN  [i \in 1..Len(sel) |-> sel[i][2]]

\* the thread has posted the reset of its scan and its unlock has not run
ScanPosted(w) == w.pc \in {"origin", "move", "collect", "check", "restore", "done"}

\* the points of a scan whose callbacks have run
AppliedPoints(w) == SubSeq(w.handed, 1, Len(w.handed) - Len(PendingPoints))

\* s can be obtained from t by leaving elements out
RECURSIVE IsSubSeq(_, _)
IsSubSeq(s, t) ==
    IF s = <<>> THEN TRUE
    ELSE IF t = <<>> THEN FALSE
    ELSE IF Head(s) = Head(t) THEN IsSubSeq(Tail(s), Tail(t))
    ELSE IsSubSeq(s, Tail(t))

\* the points of a scan and the queue of the scheduler, in one state
HandOffInOrder(w) ==
    /\ w.handed = w.scan_mean
    /\ Len(PendingPoints) <= Len(w.handed)
    /\ PendingPoints =
         SubSeq(w.handed, Len(w.handed) - Len(PendingPoints) + 1, Len(w.handed))
    /\ (NextTick("update_calib_plot") /\ AppliedPoints(w) = <<>>)
         => plots.calib = <<>>
    /\ AppliedPoints(w) # <<>> => IsSubSeq(plots.calib, AppliedPoints(w))
    /\ NextTick("calib_unlock") =>
         /\ PendingPoints = <<>>
         /\ w.restored => w.handed = w.moved

\* C22: for each scan the calibration plot is reset before any point of the
\* scan is applied (the series is empty when the first point is about to be
\* applied); one point is posted per position whose data collection
\* completed; the points wait in the queue and are applied in visit order,
\* none is left when the unlock of the scan runs; and from the first point of
\* the scan to its unlock the series changes only by the point at the head
\* of the queue being appended, each time the fit of a point succeeds, so a
\* scan whose fits all succeed leaves exactly the visited positions, in order.
C22_HandOffOrdering ==
    /\ [](\A w \in Slots : ScanPosted(workers[w]) => HandOffInOrder(workers[w]))
    /\ [][(\E w \in Slots : /\ ScanPosted(workers[w])
                            /\ AppliedPoints(workers[w]) # <<>>)
          => \/ plots'.calib = plots.calib
             \/ /\ NextTick("update_calib_plot")
                /\ plots'.calib = Append(plots.calib, Head(ticks)[2])]_vars
    /\ [][(\E w \in Slots : ScanPosted(workers[w]))
          /\ NextTick("update_calib_plot") /\ ticks' = Tail(ticks)
          => plots'.calib \in {plots.calib, Append(plots.calib, Head(ticks)[2])}]_vars

====
